---------------------------- MODULE Spec2Model ----------------------------
(***************************************************************************)
(* The Memcached client of src/mod.ts: its connection pool (getConnection, *)
(* releaseConnection, closeAll) and its request/response engine (request   *)
(* and its read loop), as a state machine.                                 *)
(*                                                                         *)
(* Text is a sequence of one-character strings; "\r" and "\n" are the two  *)
(* characters of the protocol's line delimiter.  The protocol is ASCII, so *)
(* one character is one byte.                                              *)
(***************************************************************************)
EXTENDS Integers, Sequences, FiniteSets, TLC

(***************************************************************************)
(* Bounds of the model.                                                    *)
(***************************************************************************)
\* calls of request that may be in progress at once
NumExchanges == 2
\* the largest poolSize the client is constructed with
MaxPoolSize == 2
\* entries of que beyond which no further call is made
MaxQue == 2
\* unread bytes on a connection beyond which the server holds its answer back
MaxStale == 5
\* unanswered commands on a connection beyond which no write completes
MaxOwed == 1

Exchanges == 1..NumExchanges
\* connections are open in the pool or in the hands of an exchange
Connections == 1..(NumExchanges + MaxPoolSize)
PoolSizes == 0..MaxPoolSize

(***************************************************************************)
(* Protocol text.                                                          *)
(***************************************************************************)
CRLF == <<"\r","\n">>

ENDING_LINES ==
  { <<"E","N","D">>,
    <<"S","T","O","R","E","D">>,
    <<"N","O","T","_","S","T","O","R","E","D">>,
    <<"E","X","I","S","T","S">>,
    <<"N","O","T","_","F","O","U","N","D">>,
    <<"D","E","L","E","T","E","D">>,
    <<"O","K">> }

CmdFlush == <<"f","l","u","s","h","_","a","l","l","\r","\n">>
CmdGet == <<"g","e","t"," ","k","\r","\n">>
CmdIncr == <<"i","n","c","r"," ","k"," ","1","\r","\n">>
Commands == {CmdFlush, CmdGet, CmdIncr}
\* get of the empty key, a command line the server does not accept
CmdGetEmpty == <<"g","e","t"," ","\r","\n">>
ErrorCommands == {CmdGetEmpty}

RepOk == <<"O","K","\r","\n">>
RepEnd == <<"E","N","D","\r","\n">>
RepValue == <<"V","A","L","U","E"," ","k"," ","0"," ","1","\r","\n","v","\r","\n","E","N","D","\r","\n">>
RepValueOK == <<"V","A","L","U","E"," ","k"," ","0"," ","2","\r","\n","O","K","\r","\n","E","N","D","\r","\n">>
RepNum == <<"2","\r","\n">>
RepNotFound == <<"N","O","T","_","F","O","U","N","D","\r","\n">>
RepError == <<"E","R","R","O","R","\r","\n">>

\* what a conforming memcached server may answer to a command: flush_all is
\* answered OK; get k by END (a miss) or by a VALUE block (here the stored
\* values "v" and "OK"); incr by the new number or NOT_FOUND; a command line
\* it does not accept by the error line ERROR
ServerReplies(command) ==
  IF command = CmdFlush THEN {RepOk}
  ELSE IF command = CmdGet THEN {RepEnd, RepValue, RepValueOK}
  ELSE IF command \in ErrorCommands THEN {RepError}
  ELSE {RepNum, RepNotFound}

(***************************************************************************)
(* String functions of the read loop.                                      *)
(***************************************************************************)
Min(a, b) == IF a < b THEN a ELSE b

\* String.prototype.startsWith
StartsWith(s, p) == Len(s) >= Len(p) /\ SubSeq(s, 1, Len(p)) = p

\* index of the first "\r\n" in s, 0 when there is none
FirstCRLF(s) ==
  LET I == {i \in 1..(Len(s) - 1) : s[i] = "\r" /\ s[i + 1] = "\n"}
  IN  IF I = {} THEN 0 ELSE CHOOSE i \in I : \A j \in I : i <= j

\* partial.split("\r\n"): always at least one part; the last part is the text
\* after the last delimiter
RECURSIVE Split(_)
Split(s) ==
  LET i == FirstCRLF(s)
  IN  IF i = 0 THEN <<s>>
      ELSE <<SubSeq(s, 1, i - 1)>> \o Split(SubSeq(s, i + 2, Len(s)))

\* parts.join("\r\n")
RECURSIVE Join(_)
Join(parts) ==
  IF parts = <<>> THEN <<>>
  ELSE IF Len(parts) = 1 THEN parts[1]
  ELSE parts[1] \o CRLF \o Join(Tail(parts))

\* parts.filter(Boolean): the empty strings dropped
RECURSIVE FilterNonEmpty(_)
FilterNonEmpty(parts) ==
  IF parts = <<>> THEN <<>>
  ELSE IF Head(parts) = <<>> THEN FilterNonEmpty(Tail(parts))
  ELSE <<Head(parts)>> \o FilterNonEmpty(Tail(parts))

\* the value request returns: [...lines, partial].filter(Boolean).join("\r\n")
Response(lines, partial) == Join(FilterNonEmpty(Append(lines, partial)))

\* command.startsWith("incr") || command.startsWith("decr")
IsIncrDecr(command) ==
  StartsWith(command, <<"i","n","c","r">>) \/ StartsWith(command, <<"d","e","c","r">>)

\* the test that ends the read loop inside the for loop over complete lines
IsEndingLine(line, command) == line \in ENDING_LINES \/ IsIncrDecr(command)

\* for (const line of parts): each line is pushed; the loop stops at the first
\* line that ends the response, the lines after it are not pushed
RECURSIVE PushLines(_, _, _)
PushLines(lines, parts, command) ==
  IF parts = <<>> THEN [lines |-> lines, hit |-> FALSE]
  ELSE LET ls == Append(lines, Head(parts))
       IN  IF IsEndingLine(Head(parts), command)
           THEN [lines |-> ls, hit |-> TRUE]
           ELSE PushLines(ls, Tail(parts), command)

\* lines.some((l) => l.startsWith("EN") || ENDING_LINES.has(l))
SomeLineEnds(lines) ==
  \E i \in 1..Len(lines) :
      StartsWith(lines[i], <<"E","N">>) \/ lines[i] \in ENDING_LINES

\* totalBytesRead >= this.maxBufferSize
SizeGuard(total, maxBuf) == total >= maxBuf

\* one turn of the read loop on a chunk that was read: the new lines, partial
\* and totalBytesRead, and how the turn ends: "done" (break readLoop), "throw"
\* (Response exceeds maximum buffer size.) or "more" (read again)
ReadTurn(lines, partial, total, chunk, command, maxBuf) ==
  LET tot   == total + Len(chunk)
      parts == Split(partial \o chunk)
      rest  == parts[Len(parts)]
      pl    == PushLines(lines, SubSeq(parts, 1, Len(parts) - 1), command)
  IN  IF pl.hit
      THEN [lines |-> pl.lines, partial |-> <<>>, total |-> tot, end |-> "done"]
      ELSE IF SomeLineEnds(pl.lines)
      THEN [lines |-> pl.lines, partial |-> rest, total |-> tot, end |-> "done"]
      ELSE IF SizeGuard(tot, maxBuf)
      THEN [lines |-> pl.lines, partial |-> rest, total |-> tot, end |-> "throw"]
      ELSE [lines |-> pl.lines, partial |-> rest, total |-> tot, end |-> "more"]

(***************************************************************************)
(* The typed operations and the two backends: Memcached, whose operations  *)
(* send a command through request and parse the response, and             *)
(* InMemoryCached, which keeps a Map.                                      *)
(***************************************************************************)
\* the keys and the values the application uses, the lifetimes in seconds
\* and the amounts it passes
Keys == {<<"k">>}
Values == {<<>>, <<"1">>}
Lifetimes == {0, 1, 2}
Amounts == {1, 2}
\* milliseconds between two readings of the clock
Tick == 500
\* the last reading of the clock, in ticks
MaxNow == 3
\* the longest value stored and the largest number reached
MaxValueLen == 3
MaxNum == 3

Digits == <<"0", "1", "2", "3", "4", "5", "6", "7", "8", "9">>
IsDigit(c) == \E i \in 1..10 : Digits[i] = c
DigitVal(c) == (CHOOSE i \in 1..10 : Digits[i] = c) - 1
Max(a, b) == IF a >= b THEN a ELSE b

\* a JavaScript number: an integer or NaN
Num(i) == [nan |-> FALSE, n |-> i]
NaN == [nan |-> TRUE, n |-> 0]
NumAdd(x, i) == IF x.nan THEN NaN ELSE Num(x.n + i)

\* the decimal text of a natural number
RECURSIVE NatToString(_)
NatToString(i) ==
  IF i < 10 THEN <<Digits[i + 1]>>
  ELSE NatToString(i \div 10) \o <<Digits[(i % 10) + 1]>>

\* Number.prototype.toString, and the text of a number in a template string
NumToString(x) ==
  IF x.nan THEN <<"N", "a", "N">>
  ELSE IF x.n < 0 THEN <<"-">> \o NatToString(0 - x.n)
  ELSE NatToString(x.n)

\* the value of the longest prefix of s made of digits, read after acc
RECURSIVE DigitsValue(_, _)
DigitsValue(s, acc) ==
  IF s = <<>> \/ ~IsDigit(Head(s)) THEN acc
  ELSE DigitsValue(Tail(s), 10 * acc + DigitVal(Head(s)))

\* String.prototype.trim on protocol text: leading and trailing "\r", "\n"
\* and spaces leave
RECURSIVE Trim(_)
Trim(s) ==
  IF s = <<>> THEN s
  ELSE IF Head(s) \in {" ", "\r", "\n"} THEN Trim(Tail(s))
  ELSE IF s[Len(s)] \in {" ", "\r", "\n"} THEN Trim(SubSeq(s, 1, Len(s) - 1))
  ELSE s

\* parseInt(s, 10): white space is skipped, then an optional sign and the
\* digits that follow are read; NaN when no digit follows
ParseInt(s) ==
  LET t == Trim(s)
      neg == t # <<>> /\ Head(t) = "-"
      body == IF t # <<>> /\ Head(t) \in {"-", "+"} THEN Tail(t) ELSE t
  IN  IF body = <<>> \/ ~IsDigit(Head(body)) THEN NaN
      ELSE IF neg THEN Num(0 - DigitsValue(body, 0))
      ELSE Num(DigitsValue(body, 0))

\* what a promise of a typed operation settles with
Resolved(kind, text, num) ==
  [ok |-> TRUE, kind |-> kind, text |-> text, num |-> num]
Rejection == [ok |-> FALSE, kind |-> "error", text |-> <<>>, num |-> Num(0)]
ResTrue == Resolved("true", <<>>, Num(0))
ResNull == Resolved("null", <<>>, Num(0))
ResUndefined == Resolved("undefined", <<>>, Num(0))
ResText(v) == Resolved("string", v, Num(0))
ResNum(x) == Resolved("number", <<>>, x)
NoResult == [ok |-> FALSE, kind |-> "", text |-> <<>>, num |-> Num(0)]

\* a call of a typed operation
OpCall(op, k, v, life, amount) ==
  [op |-> op, key |-> k, value |-> v, lifetime |-> life, amount |-> amount]
NoCall == OpCall("", <<>>, <<>>, 0, 0)

\* an entry of a store, and the absence of one
Entry(v, exp) == [has |-> TRUE, value |-> v, expiresAt |-> exp]
NoEntry == [has |-> FALSE, value |-> <<>>, expiresAt |-> 0]
EmptyStore == [k \in Keys |-> NoEntry]

\* what a method of InMemoryCached leaves and settles with
Outcome(st, res) == [store |-> st, res |-> res]

\* a get that forgets the test of expiresAt
NotExpired_Always(entry, t) == TRUE

\* entry.expiresAt === 0 || entry.expiresAt > Date.now()
NotExpired(entry, t) == entry.expiresAt = 0 \/ entry.expiresAt > t

\* InMemoryCached.get
InMemoryCached_get(st, k, t) ==
  IF st[k].has /\ NotExpired(st[k], t)
  THEN Outcome(st, ResText(st[k].value))
  ELSE Outcome([st EXCEPT ![k] = NoEntry], ResNull)

\* InMemoryCached.set: the lifetime is raised to 1 before the test lifetime > 0
InMemoryCached_set(st, k, v, lifetime, t) ==
  LET life == Max(1, lifetime)
      expiresAt == IF life > 0 THEN t + life * 1000 ELSE 0
  IN  Outcome([st EXCEPT ![k] = Entry(v, expiresAt)], ResTrue)

\* InMemoryCached.replace
InMemoryCached_replace(st, k, v, lifetime, t) ==
  IF ~st[k].has THEN Outcome(st, Rejection)
  ELSE InMemoryCached_set(st, k, v, Max(1, lifetime), t)

\* a delete that leaves the entry in the Map
InMemoryCached_delete_Keeps(st, k) == Outcome(st, ResTrue)

\* InMemoryCached.delete
InMemoryCached_delete(st, k) == Outcome([st EXCEPT ![k] = NoEntry], ResTrue)

\* InMemoryCached.flush
InMemoryCached_flush(st) == Outcome(EmptyStore, ResTrue)

\* InMemoryCached.add
InMemoryCached_add(st, k, v, lifetime, t) ==
  IF st[k].has THEN Outcome(st, Rejection)
  ELSE InMemoryCached_set(st, k, v, Max(1, lifetime), t)

\* InMemoryCached.append
InMemoryCached_append(st, k, v, t) ==
  LET g == InMemoryCached_get(st, k, t)
  IN  IF g.res.kind = "null" THEN Outcome(g.store, Rejection)
      ELSE InMemoryCached_set(g.store, k, g.res.text \o v, 0, t)

\* InMemoryCached.prepend
InMemoryCached_prepend(st, k, v, t) ==
  LET g == InMemoryCached_get(st, k, t)
  IN  IF g.res.kind = "null" THEN Outcome(g.store, Rejection)
      ELSE InMemoryCached_set(g.store, k, v \o g.res.text, 0, t)

\* InMemoryCached.incr
InMemoryCached_incr(st, k, amount, t) ==
  LET g == InMemoryCached_get(st, k, t)
      newValue == NumAdd(ParseInt(g.res.text), amount)
  IN  IF g.res.kind = "null" THEN Outcome(g.store, Rejection)
      ELSE Outcome(InMemoryCached_set(g.store, k, NumToString(newValue), 0, t).store,
                   ResNum(newValue))

\* InMemoryCached.decr
InMemoryCached_decr(st, k, amount, t) ==
  LET g == InMemoryCached_get(st, k, t)
      newValue == NumAdd(ParseInt(g.res.text), 0 - amount)
  IN  IF g.res.kind = "null" THEN Outcome(g.store, Rejection)
      ELSE Outcome(InMemoryCached_set(g.store, k, NumToString(newValue), 0, t).store,
                   ResNum(newValue))

\* protocol words of the storage and arithmetic commands
Space == <<" ">>
RepStored == <<"S","T","O","R","E","D","\r","\n">>
RepNotStored == <<"N","O","T","_","S","T","O","R","E","D","\r","\n">>
RepDeleted == <<"D","E","L","E","T","E","D","\r","\n">>
RepNonNumeric ==
  <<"C","L","I","E","N","T","_","E","R","R","O","R"," ","n","o","n","-",
    "n","u","m","e","r","i","c","\r","\n">>
WordValue == <<"V","A","L","U","E">>

\* the text of a stored item is a decimal number
IsNumeric(v) == v # <<>> /\ \A i \in 1..Len(v) : IsDigit(v[i])

\* the item of a key is stored on the server and has not expired
ServerLive(e, t) == e.has /\ (e.expiresAt = 0 \/ e.expiresAt > t)

\* the absolute expiry a server gives an item stored at t with exptime seconds
ServerExpiry(exptime, t) == IF exptime = 0 THEN 0 ELSE t + exptime * 1000

\* A conforming memcached server: the store it keeps and the reply it sends
\* to one command received at time t.  An item that has expired is gone.
Served(st, bytes) == [store |-> st, reply |-> bytes]
Purged(srv, k, t) == IF ServerLive(srv[k], t) THEN srv ELSE [srv EXCEPT ![k] = NoEntry]
Put(srv, k, w, exp) == [srv EXCEPT ![k] = Entry(w, exp)]

\* get <key>
Server_get(srv, k, t) ==
  IF ServerLive(srv[k], t)
  THEN Served(srv, WordValue \o Space \o k \o Space \o <<"0">> \o Space
                   \o NatToString(Len(srv[k].value)) \o CRLF
                   \o srv[k].value \o CRLF \o RepEnd)
  ELSE Served(Purged(srv, k, t), RepEnd)

\* set <key> <flags> <exptime> <bytes>
Server_set(srv, k, v, exptime, t) ==
  Served(Put(srv, k, v, ServerExpiry(exptime, t)), RepStored)

\* add: stores only when the server does not hold the key
Server_add(srv, k, v, exptime, t) ==
  IF ServerLive(srv[k], t) THEN Served(srv, RepNotStored)
  ELSE Served(Put(srv, k, v, ServerExpiry(exptime, t)), RepStored)

\* replace: stores only when the server holds the key
Server_replace(srv, k, v, exptime, t) ==
  IF ServerLive(srv[k], t)
  THEN Served(Put(srv, k, v, ServerExpiry(exptime, t)), RepStored)
  ELSE Served(Purged(srv, k, t), RepNotStored)

\* append: flags and exptime are ignored, the item keeps its expiry
Server_append(srv, k, v, t) ==
  IF ServerLive(srv[k], t)
  THEN Served(Put(srv, k, srv[k].value \o v, srv[k].expiresAt), RepStored)
  ELSE Served(Purged(srv, k, t), RepNotStored)

\* prepend
Server_prepend(srv, k, v, t) ==
  IF ServerLive(srv[k], t)
  THEN Served(Put(srv, k, v \o srv[k].value, srv[k].expiresAt), RepStored)
  ELSE Served(Purged(srv, k, t), RepNotStored)

\* delete <key>
Server_delete(srv, k, t) ==
  IF ServerLive(srv[k], t) THEN Served([srv EXCEPT ![k] = NoEntry], RepDeleted)
  ELSE Served(Purged(srv, k, t), RepNotFound)

\* flush_all
Server_flush_all(srv) == Served(EmptyStore, RepOk)

\* incr and decr: the item must hold a decimal number, which is replaced by
\* new; the item keeps its expiry
Server_arith(srv, k, new, t) ==
  IF ~ServerLive(srv[k], t) THEN Served(Purged(srv, k, t), RepNotFound)
  ELSE IF ~IsNumeric(srv[k].value) THEN Served(srv, RepNonNumeric)
  ELSE Served(Put(srv, k, NatToString(new), srv[k].expiresAt), NatToString(new) \o CRLF)

\* incr <key> <value>
Server_incr(srv, k, amount, t) ==
  Server_arith(srv, k, DigitsValue(srv[k].value, 0) + amount, t)

\* decr <key> <value>: the new value is never below 0
Server_decr(srv, k, amount, t) ==
  Server_arith(srv, k, Max(0, DigitsValue(srv[k].value, 0) - amount), t)

\* new Uint8Array(maxBufferSize) of a client built with the default option
DefaultMaxBufferSize == 2048

\* request(command) on an idle connection to a server whose whole reply arrives
\* in one read: the response returned, or no return
RequestReply(cmd, bytes) ==
  LET r == ReadTurn(<<>>, <<>>, 0, bytes, cmd, DefaultMaxBufferSize)
  IN  [returns |-> r.end = "done",
       threw |-> r.end = "throw",
       response |-> Response(r.lines, r.partial)]

\* the promise of a typed operation whose request gave x, when the operation
\* resolves with res on a response it accepts
Settle(x, accepted, res) ==
  IF x.threw THEN Rejection
  ELSE IF ~x.returns THEN NoResult
  ELSE IF accepted THEN res
  ELSE Rejection

\* the header of a storage command: `${verb} ${key} 0 ${lifetime} ${value.length}\r\n${value}\r\n`
StorageCommand(verb, k, lifetime, v) ==
  verb \o Space \o k \o Space \o <<"0">> \o Space \o NatToString(lifetime)
       \o Space \o NatToString(Len(v)) \o CRLF \o v \o CRLF

\* Memcached.get
Memcached_get(srv, k, t) ==
  LET cmd == <<"g","e","t">> \o Space \o k \o CRLF
      s == Server_get(srv, k, t)
      x == RequestReply(cmd, s.reply)
      parts == Split(x.response)
      value == IF Len(parts) >= 2 THEN ResText(parts[2]) ELSE ResUndefined
  IN  Outcome(s.store,
              IF StartsWith(x.response, WordValue) THEN Settle(x, TRUE, value)
              ELSE Settle(x, TRUE, ResNull))

\* Memcached.set
Memcached_set(srv, k, v, lifetime, t) ==
  LET life == Max(1, lifetime)
      cmd == StorageCommand(<<"s","e","t">>, k, life, v)
      s == Server_set(srv, k, v, life, t)
      x == RequestReply(cmd, s.reply)
  IN  Outcome(s.store, Settle(x, StartsWith(x.response, <<"S","T","O","R","E","D">>), ResTrue))

\* Memcached.replace
Memcached_replace(srv, k, v, lifetime, t) ==
  LET life == Max(1, lifetime)
      cmd == StorageCommand(<<"r","e","p","l","a","c","e">>, k, life, v)
      s == Server_replace(srv, k, v, life, t)
      x == RequestReply(cmd, s.reply)
  IN  Outcome(s.store, Settle(x, StartsWith(x.response, <<"S","T","O","R","E","D">>), ResTrue))

\* Memcached.delete
Memcached_delete(srv, k, t) ==
  LET cmd == <<"d","e","l","e","t","e">> \o Space \o k \o CRLF
      s == Server_delete(srv, k, t)
      x == RequestReply(cmd, s.reply)
  IN  Outcome(s.store, Settle(x, StartsWith(x.response, <<"D","E","L","E","T","E","D">>), ResTrue))

\* Memcached.flush
Memcached_flush(srv, t) ==
  LET s == Server_flush_all(srv)
      x == RequestReply(CmdFlush, s.reply)
  IN  Outcome(s.store, Settle(x, StartsWith(x.response, <<"O","K">>), ResTrue))

\* Memcached.add
Memcached_add(srv, k, v, lifetime, t) ==
  LET life == Max(1, lifetime)
      cmd == StorageCommand(<<"a","d","d">>, k, life, v)
      s == Server_add(srv, k, v, life, t)
      x == RequestReply(cmd, s.reply)
  IN  Outcome(s.store, Settle(x, StartsWith(x.response, <<"S","T","O","R","E","D">>), ResTrue))

\* Memcached.append
Memcached_append(srv, k, v, t) ==
  LET cmd == StorageCommand(<<"a","p","p","e","n","d">>, k, 0, v)
      s == Server_append(srv, k, v, t)
      x == RequestReply(cmd, s.reply)
  IN  Outcome(s.store, Settle(x, StartsWith(x.response, <<"S","T","O","R","E","D">>), ResTrue))

\* Memcached.prepend
Memcached_prepend(srv, k, v, t) ==
  LET cmd == StorageCommand(<<"p","r","e","p","e","n","d">>, k, 0, v)
      s == Server_prepend(srv, k, v, t)
      x == RequestReply(cmd, s.reply)
  IN  Outcome(s.store, Settle(x, StartsWith(x.response, <<"S","T","O","R","E","D">>), ResTrue))

\* Memcached.incr
Memcached_incr(srv, k, amount, t) ==
  LET cmd == <<"i","n","c","r">> \o Space \o k \o Space \o NatToString(amount) \o CRLF
      s == Server_incr(srv, k, amount, t)
      x == RequestReply(cmd, s.reply)
      result == ParseInt(Trim(x.response))
  IN  Outcome(s.store, Settle(x, ~result.nan, ResNum(result)))

\* Memcached.decr
Memcached_decr(srv, k, amount, t) ==
  LET cmd == <<"d","e","c","r">> \o Space \o k \o Space \o NatToString(amount) \o CRLF
      s == Server_decr(srv, k, amount, t)
      x == RequestReply(cmd, s.reply)
      result == ParseInt(Trim(x.response))
  IN  Outcome(s.store, Settle(x, ~result.nan, ResNum(result)))

(***************************************************************************)
(* State.                                                                  *)
(***************************************************************************)
VARIABLES
  poolSize,           \* this.poolSize
  maxBufferSize,      \* this.maxBufferSize
  defaultQueTimeout,  \* this.defaultQueTimeout
  fragments,          \* the transport may deliver a reply in several reads
  script,             \* the calls the application may make as exchange e
  pool,               \* this.pool: the idle connections, in push order
  que,                \* this.que: per entry, the exchange whose pending
                      \* acquisition its [resolve, reject] settle; 0 once that
                      \* promise is settled and the two functions do nothing
  cstate,             \* each connection: "open", or "closed" (or not opened)
  relStamp,           \* rank of an idle connection by the time of its release
  released,           \* releaseConnection has been called
  wire,               \* bytes the server sent on a connection, not yet read
  owed,               \* commands the server has yet to answer
  peerClosed,         \* the server closed its end of the connection
  broken,             \* a write or a read on the connection has thrown
  pc,                 \* where the call of request of exchange e stands:
                      \* "new" (no call in progress), "connecting", "queued",
                      \* "writing", "reading"
  conn,               \* the connection exchange e holds, 0 for none
  command,            \* request's command
  timer,              \* the setTimeout of a queued acquisition is armed
  lines,              \* request's lines
  partial,            \* request's partial
  totalBytesRead,     \* request's totalBytesRead
  deadline,           \* the timeout of the call: "none" (not positive),
                      \* "set", or "passed" once that time has elapsed
  via,                \* the branch getConnection took: "idle", "open", "queue"
  idleSeen,           \* pool.length when exchange e called getConnection
  reply,              \* what the server answered to exchange e
  answered,           \* the server answered exchange e
  fresh,              \* exchange e wrote on a connection with nothing unread
  last,               \* what the step just taken did: the call of request
                      \* that ended, or the closeAll made
  now,                \* Date.now(), in milliseconds since the start
  store,              \* InMemoryCached's store
  server,             \* the items the memcached server holds
  out,                \* the typed operation the step just taken called on
                      \* both backends, and what each promise settled with
  hist,               \* per key, what the calls made so far amount to
  closedAll           \* closeAll has been called and no operation was issued
                      \* since

config == <<poolSize, maxBufferSize, defaultQueTimeout, fragments, script>>
poolVars == <<pool, que, cstate, relStamp, released>>
netVars == <<wire, owed, peerClosed, broken>>
reqVars == <<pc, conn, command, timer, lines, partial, totalBytesRead,
             deadline, via, idleSeen, reply, answered, fresh>>
storeVars == <<now, store, server, out, hist>>
vars == <<config, poolVars, netVars, reqVars, last, storeVars, closedAll>>

\* defaultQueTimeout = -Infinity: only its sign is ever used
NegInfinity == -1
\* a positive number of milliseconds
SomeMs == 1000
\* the timeout argument of a call: absent, or a number
CallTimeouts == {<<>>, <<0>>, <<SomeMs>>}

ErrConnect == "connect failed"
ErrQueTimeout == "Connection in QUE timeout"
ErrClosing == "Connection closing"
ErrWrite == "write failed"
ErrRead == "read failed"
ErrTooLarge == "Response exceeds maximum buffer size."

InFlight(e) == pc[e] \in {"writing", "reading"}
InSeq(x, q) == \E i \in 1..Len(q) : q[i] = x

\* a call request(command, timeout)
Call(cmd, t) == [command |-> cmd, timeout |-> t]
Calls(cmds, ts) == {Call(cmd, t) : cmd \in cmds, t \in ts}

\* The record of an event.  For a call of request that ended: the exchange,
\* how it ended ("return", "eof" or the error), the string returned, the bytes
\* read, the calls of releaseConnection made, whether its acquisition produced
\* a connection, that connection, the bytes left unread on it, the command,
\* the server's answer, whether the connection was clean when the command was
\* written, and the state of the timeout.  For closeAll: the number of
\* connections closed and of waiters rejected.
NoEvent ==
  [op |-> "", ex |-> 0, how |-> "", response |-> <<>>, total |-> 0,
   released |-> 0, obtained |-> FALSE, conn |-> 0, unread |-> <<>>,
   command |-> <<>>, reply |-> <<>>, answered |-> FALSE, fresh |-> FALSE,
   deadline |-> "none", closed |-> 0, rejected |-> 0]

\* what is known of a key from the calls made: the last set when no call has
\* changed the key since, whether a delete or a flush removed it and nothing
\* stored it again (and whether both backends held it then), and the number
\* the last incr or decr gave each backend
NoSet == [valid |-> FALSE, value |-> <<>>, at |-> 0, lifetime |-> 0]
NoNumber == [valid |-> FALSE, mem |-> NoResult, net |-> NoResult]
NoHist ==
  [k \in Keys |-> [set |-> NoSet, removed |-> FALSE, held |-> FALSE, num |-> NoNumber]]

\* no typed operation was called by the step
NoOut ==
  [call |-> NoCall, mem |-> NoResult, net |-> NoResult]

(***************************************************************************)
(* Initial states: a client just constructed, nothing opened or queued.    *)
(***************************************************************************)
InitWith(poolSizes, bufferSizes, defaults, frag, scr) ==
  /\ poolSize \in poolSizes
  /\ maxBufferSize \in bufferSizes
  /\ defaultQueTimeout \in defaults
  /\ fragments = frag
  /\ script = scr
  /\ pool = <<>>
  /\ que = <<>>
  /\ cstate = [c \in Connections |-> "closed"]
  /\ relStamp = [c \in Connections |-> 0]
  /\ released = FALSE
  /\ wire = [c \in Connections |-> <<>>]
  /\ owed = [c \in Connections |-> <<>>]
  /\ peerClosed = [c \in Connections |-> FALSE]
  /\ broken = [c \in Connections |-> FALSE]
  /\ pc = [e \in Exchanges |-> "new"]
  /\ conn = [e \in Exchanges |-> 0]
  /\ command = [e \in Exchanges |-> <<>>]
  /\ timer = [e \in Exchanges |-> FALSE]
  /\ lines = [e \in Exchanges |-> <<>>]
  /\ partial = [e \in Exchanges |-> <<>>]
  /\ totalBytesRead = [e \in Exchanges |-> 0]
  /\ deadline = [e \in Exchanges |-> "none"]
  /\ via = [e \in Exchanges |-> ""]
  /\ idleSeen = [e \in Exchanges |-> 0]
  /\ reply = [e \in Exchanges |-> <<>>]
  /\ answered = [e \in Exchanges |-> FALSE]
  /\ fresh = [e \in Exchanges |-> FALSE]
  /\ last = NoEvent
  /\ now = 0
  /\ store = EmptyStore
  /\ server = EmptyStore
  /\ out = NoOut
  /\ hist = NoHist
  /\ closedAll = FALSE

\* The pool under load: every call is a flush_all, answered "OK\r\n" in one
\* read into a buffer that holds it.
Init ==
  InitWith(PoolSizes, {8}, {NegInfinity}, FALSE,
           [e \in Exchanges |-> Calls({CmdFlush}, CallTimeouts)])

\* Framing: one caller at a time issues flush_all, get and incr against a
\* server whose answers may arrive in pieces, with a small and a large buffer.
InitFraming ==
  InitWith({0, 1}, {3, 32}, {NegInfinity}, TRUE,
           [e \in Exchanges |->
              IF e = 1
              THEN Calls(Commands, {<<>>}) \cup Calls({CmdFlush}, {<<SomeMs>>})
              ELSE {}])

(***************************************************************************)
(* The pool.                                                               *)
(***************************************************************************)
\* pool.shift() in the place of pool.pop(): the oldest idle connection
PoolPop_Shift(p) == [conn |-> Head(p), rest |-> Tail(p)]

\* this.pool.pop(): the last element leaves the array
PoolPop(p) == [conn |-> p[Len(p)], rest |-> SubSeq(p, 1, Len(p) - 1)]

\* an admission test that also counts the connections checked out or being
\* opened
AdmitsNew_CountsHeld ==
  Len(pool) + Len(que)
    + Cardinality({e \in Exchanges : pc[e] \in {"connecting", "writing", "reading"}})
    < poolSize

\* this.pool.length + this.que.length < this.poolSize
AdmitsNew == Len(pool) + Len(que) < poolSize

\* if (timeout >= 0) in the place of if (timeout > 0)
ArmsTimer_NonNegative(t) == t >= 0

\* if (timeout > 0) setTimeout(...)
ArmsTimer(t) == t > 0

\* timeout: number = this.defaultQueTimeout
EffectiveTimeout(t) == IF t = <<>> THEN defaultQueTimeout ELSE t[1]

\* the connection Deno.connect returns: one that is not open
NewConnection ==
  CHOOSE c \in Connections :
    /\ cstate[c] # "open"
    /\ \A d \in Connections : cstate[d] # "open" => c <= d

\* the rank given to a connection pushed onto the pool: above all idle ones
NextStamp ==
  LET S == {relStamp[pool[i]] : i \in 1..Len(pool)}
  IN  IF S = {} THEN 1 ELSE 1 + (CHOOSE m \in S : \A x \in S : x <= m)

\* a call of releaseConnection that did not happen
NoRelease ==
  [pool |-> pool, que |-> que, to |-> 0, close |-> FALSE, pushed |-> FALSE,
   called |-> FALSE]

\* releaseConnection without the test pool.length < poolSize: the connection
\* is pushed whenever no waiter takes it
releaseConnection_Unbounded(c) ==
  IF Len(que) > 0
  THEN [pool |-> pool, que |-> Tail(que), to |-> Head(que),
        close |-> FALSE, pushed |-> FALSE, called |-> TRUE]
  ELSE [pool |-> Append(pool, c), que |-> que, to |-> 0,
        close |-> FALSE, pushed |-> TRUE, called |-> TRUE]

\* a release that lets go of the connection when the idle set is full,
\* without closing it
releaseConnection_LetsGo(c) ==
  IF Len(que) > 0
  THEN [pool |-> pool, que |-> Tail(que), to |-> Head(que),
        close |-> FALSE, pushed |-> FALSE, called |-> TRUE]
  ELSE IF Len(pool) < poolSize
  THEN [pool |-> Append(pool, c), que |-> que, to |-> 0,
        close |-> FALSE, pushed |-> TRUE, called |-> TRUE]
  ELSE [pool |-> pool, que |-> que, to |-> 0,
        close |-> FALSE, pushed |-> FALSE, called |-> TRUE]

\* releaseConnection(conn): the new pool and que, the exchange whose pending
\* acquisition is resolved with conn (0: none; resolve does nothing on a promise
\* that is already settled), whether conn is closed, whether it is pushed
releaseConnection(c) ==
  IF Len(que) > 0
  THEN [pool |-> pool, que |-> Tail(que), to |-> Head(que),
        close |-> FALSE, pushed |-> FALSE, called |-> TRUE]
  ELSE IF Len(pool) < poolSize
  THEN [pool |-> Append(pool, c), que |-> que, to |-> 0,
        close |-> FALSE, pushed |-> TRUE, called |-> TRUE]
  ELSE [pool |-> pool, que |-> que, to |-> 0,
        close |-> TRUE, pushed |-> FALSE, called |-> TRUE]

\* a release placed at the end of the try block in the place of finally: it
\* is skipped when the block throws
FinallyRelease_OnReturnOnly(c, threw) ==
  IF threw THEN NoRelease ELSE releaseConnection(c)

\* request's finally block: runs on return and on throw alike
FinallyRelease(c, threw) == releaseConnection(c)

\* the bookkeeping of a call that has ended is dropped: the slot is free for
\* the application's next call
Forget(f, e, v) == [f EXCEPT ![e] = v]

\* the queued calls in E are rejected
Rejected(E) ==
  /\ pc' = [e \in Exchanges |-> IF e \in E THEN "new" ELSE pc[e]]
  /\ timer' = [e \in Exchanges |-> IF e \in E THEN FALSE ELSE timer[e]]
  /\ deadline' = [e \in Exchanges |-> IF e \in E THEN "none" ELSE deadline[e]]
  /\ via' = [e \in Exchanges |-> IF e \in E THEN "" ELSE via[e]]
  /\ idleSeen' = [e \in Exchanges |-> IF e \in E THEN 0 ELSE idleSeen[e]]
  /\ command' = [e \in Exchanges |-> IF e \in E THEN <<>> ELSE command[e]]

(***************************************************************************)
(* request(command, timeout), up to its first suspension: the call of      *)
(* getConnection.  An idle connection or, later, a new or handed-over one  *)
(* resumes request in the same turn of the event loop, which enters the    *)
(* try block and issues connection.write.                                  *)
(***************************************************************************)
Request(e, cmd, t) ==
  /\ pc[e] = "new"
  /\ Call(cmd, t) \in script[e]
  /\ command' = [command EXCEPT ![e] = cmd]
  /\ deadline' = [deadline EXCEPT ![e] =
                    IF EffectiveTimeout(t) > 0 THEN "set" ELSE "none"]
  /\ idleSeen' = [idleSeen EXCEPT ![e] = Len(pool)]
  /\ IF Len(pool) > 0
     THEN /\ pool' = PoolPop(pool).rest
          /\ relStamp' = [relStamp EXCEPT ![PoolPop(pool).conn] = 0]
          /\ conn' = [conn EXCEPT ![e] = PoolPop(pool).conn]
          /\ pc' = [pc EXCEPT ![e] = "writing"]
          /\ via' = [via EXCEPT ![e] = "idle"]
          /\ UNCHANGED <<que, timer>>
     ELSE IF AdmitsNew
     THEN /\ pc' = [pc EXCEPT ![e] = "connecting"]
          /\ via' = [via EXCEPT ![e] = "open"]
          /\ UNCHANGED <<pool, relStamp, que, conn, timer>>
     ELSE /\ Len(que) < MaxQue
          /\ que' = Append(que, e)
          /\ timer' = [timer EXCEPT ![e] = ArmsTimer(EffectiveTimeout(t))]
          /\ pc' = [pc EXCEPT ![e] = "queued"]
          /\ via' = [via EXCEPT ![e] = "queue"]
          /\ UNCHANGED <<pool, relStamp, conn>>
  /\ closedAll' = FALSE
  /\ UNCHANGED <<config, storeVars, cstate, released, netVars, lines, partial,
                 totalBytesRead, reply, answered, fresh>>
  /\ last' = NoEvent

\* createConnection: Deno.connect resolves with a new connection
ConnectOk(e) ==
  /\ pc[e] = "connecting"
  /\ cstate' = [cstate EXCEPT ![NewConnection] = "open"]
  /\ conn' = [conn EXCEPT ![e] = NewConnection]
  /\ pc' = [pc EXCEPT ![e] = "writing"]
  /\ UNCHANGED <<config, storeVars, closedAll, pool, que, relStamp, released, netVars, command,
                 timer, lines, partial, totalBytesRead, deadline, via,
                 idleSeen, reply, answered, fresh>>
  /\ last' = NoEvent

\* createConnection: Deno.connect rejects; request rejects before its try block
ConnectFail(e) ==
  /\ pc[e] = "connecting"
  /\ Rejected({e})
  /\ last' = [NoEvent EXCEPT !.op = "end", !.ex = e, !.how = ErrConnect,
                             !.command = command[e],
                             !.deadline = deadline[e]]
  /\ UNCHANGED <<config, storeVars, closedAll, poolVars, netVars, conn, lines, partial,
                 totalBytesRead, reply, answered, fresh>>

\* the setTimeout callback of a queued acquisition: the promise is rejected,
\* promise.finally clears the timer, request rejects; the entry stays in que
QueTimeout(e) ==
  /\ timer[e]
  /\ que' = [i \in 1..Len(que) |-> IF que[i] = e THEN 0 ELSE que[i]]
  /\ Rejected({e})
  /\ last' = [NoEvent EXCEPT !.op = "end", !.ex = e, !.how = ErrQueTimeout,
                             !.command = command[e],
                             !.deadline = deadline[e]]
  /\ UNCHANGED <<config, storeVars, closedAll, pool, cstate, relStamp, released, netVars, conn,
                 lines, partial, totalBytesRead, reply, answered, fresh>>

\* the time given as timeout passes for a call that armed no timer
TimeoutElapses(e) ==
  /\ pc[e] # "new"
  /\ deadline[e] = "set"
  /\ ~timer[e]
  /\ deadline' = [deadline EXCEPT ![e] = "passed"]
  /\ UNCHANGED <<config, storeVars, closedAll, poolVars, netVars, pc, conn, command, timer, lines,
                 partial, totalBytesRead, via, idleSeen, reply, answered,
                 fresh>>
  /\ last' = NoEvent

\* a closeAll that closes every connection of the client, the checked-out
\* ones included
CloseAll_EveryConnection ==
  /\ pool' = <<>>
  /\ que' = <<>>
  /\ cstate' = [c \in Connections |-> "closed"]
  /\ relStamp' = [c \in Connections |-> 0]
  /\ wire' = [c \in Connections |-> <<>>]
  /\ owed' = [c \in Connections |-> <<>>]
  /\ peerClosed' = [c \in Connections |-> FALSE]
  /\ broken' = [c \in Connections |-> FALSE]
  /\ Rejected({e \in Exchanges : InSeq(e, que)})
  /\ last' = [NoEvent EXCEPT !.op = "closeAll", !.how = ErrClosing,
                !.closed = Cardinality({c \in Connections : cstate[c] = "open"}),
                !.rejected = Cardinality({e \in Exchanges : InSeq(e, que)})]
  /\ closedAll' = TRUE
  /\ UNCHANGED <<config, storeVars, released, conn, lines, partial, totalBytesRead,
                 reply, answered, fresh>>

\* closeAll()
CloseAll ==
  /\ pool' = <<>>
  /\ que' = <<>>
  /\ cstate' = [c \in Connections |->
                  IF InSeq(c, pool) THEN "closed" ELSE cstate[c]]
  /\ relStamp' = [c \in Connections |-> 0]
  /\ wire' = [c \in Connections |-> IF InSeq(c, pool) THEN <<>> ELSE wire[c]]
  /\ owed' = [c \in Connections |-> IF InSeq(c, pool) THEN <<>> ELSE owed[c]]
  /\ peerClosed' = [c \in Connections |->
                  IF InSeq(c, pool) THEN FALSE ELSE peerClosed[c]]
  /\ broken' = [c \in Connections |->
                  IF InSeq(c, pool) THEN FALSE ELSE broken[c]]
  /\ Rejected({e \in Exchanges : InSeq(e, que)})
  /\ last' = [NoEvent EXCEPT !.op = "closeAll", !.how = ErrClosing,
                !.closed = Len(pool),
                !.rejected = Cardinality({e \in Exchanges : InSeq(e, que)})]
  /\ closedAll' = TRUE
  /\ UNCHANGED <<config, storeVars, released, conn, lines, partial, totalBytesRead,
                 reply, answered, fresh>>

(***************************************************************************)
(* The exchange.                                                           *)
(***************************************************************************)
\* the exchange that holds connection c, 0 for none
Holder(c) ==
  IF \E e \in Exchanges : conn[e] = c
  THEN CHOOSE e \in Exchanges : conn[e] = c
  ELSE 0

\* how request leaves its try block: the finally block releases the
\* connection, then the promise of request settles.  A connection handed to a
\* waiter resumes that waiter's request, which issues its write.  w holds the
\* bytes left unread on each connection, b tells whether the connection is
\* broken, and total is totalBytesRead.
Exit(e, how, threw, resp, w, b, total) ==
  LET c == conn[e]
      r == FinallyRelease(c, threw)
      gone == r.close \/ b
  IN  /\ pool' = r.pool
      /\ que' = r.que
      /\ cstate' = IF r.close THEN [cstate EXCEPT ![c] = "closed"] ELSE cstate
      /\ wire' = IF gone THEN [w EXCEPT ![c] = <<>>] ELSE w
      /\ owed' = IF gone THEN [owed EXCEPT ![c] = <<>>] ELSE owed
      /\ peerClosed' = IF gone THEN [peerClosed EXCEPT ![c] = FALSE]
                       ELSE peerClosed
      /\ broken' = [broken EXCEPT ![c] = b /\ ~r.close]
      /\ relStamp' = IF r.pushed THEN [relStamp EXCEPT ![c] = NextStamp]
                     ELSE relStamp
      /\ released' = (released \/ r.called)
      /\ pc' = [x \in Exchanges |->
                  IF x = e THEN "new"
                  ELSE IF x = r.to THEN "writing" ELSE pc[x]]
      /\ conn' = [x \in Exchanges |->
                  IF x = e THEN (IF r.called THEN 0 ELSE c)
                  ELSE IF x = r.to THEN c ELSE conn[x]]
      /\ timer' = [x \in Exchanges |-> IF x = r.to THEN FALSE ELSE timer[x]]
      /\ lines' = Forget(lines, e, <<>>)
      /\ partial' = Forget(partial, e, <<>>)
      /\ totalBytesRead' = Forget(totalBytesRead, e, 0)
      /\ deadline' = Forget(deadline, e, "none")
      /\ via' = Forget(via, e, "")
      /\ idleSeen' = Forget(idleSeen, e, 0)
      /\ command' = Forget(command, e, <<>>)
      /\ reply' = Forget(reply, e, <<>>)
      /\ answered' = Forget(answered, e, FALSE)
      /\ fresh' = Forget(fresh, e, FALSE)
      /\ last' = [NoEvent EXCEPT !.op = "end", !.ex = e, !.how = how,
                    !.response = resp, !.total = total,
                    !.released = IF r.called THEN 1 ELSE 0,
                    !.obtained = TRUE, !.conn = c, !.unread = w[c],
                    !.command = command[e], !.reply = reply[e],
                    !.answered = answered[e], !.fresh = fresh[e],
                    !.deadline = deadline[e],
                    !.closed = IF r.close THEN 1 ELSE 0]

\* await connection.write(...) resolves: request issues its first read, and
\* the server has the command unless it has closed the connection
WriteOk(e) ==
  /\ pc[e] = "writing"
  /\ ~broken[conn[e]]
  /\ Len(owed[conn[e]]) < MaxOwed
  /\ pc' = [pc EXCEPT ![e] = "reading"]
  /\ owed' = IF peerClosed[conn[e]] THEN owed
             ELSE [owed EXCEPT ![conn[e]] = Append(@, command[e])]
  /\ fresh' = [fresh EXCEPT ![e] = wire[conn[e]] = <<>> /\ owed[conn[e]] = <<>>]
  /\ UNCHANGED <<config, storeVars, closedAll, poolVars, wire, peerClosed, broken, conn, command,
                 timer, lines, partial, totalBytesRead, deadline, via,
                 idleSeen, reply, answered>>
  /\ last' = NoEvent

\* await connection.write(...) throws
WriteFail(e) ==
  /\ pc[e] = "writing"
  /\ Exit(e, ErrWrite, TRUE, <<>>, wire, TRUE, 0)
  /\ UNCHANGED <<config, storeVars, closedAll>>

\* the server answers the oldest command it has on a connection; the answer
\* is to the command of the exchange reading on it when no older one is owed
ServerReply(c) ==
  /\ cstate[c] = "open"
  /\ ~peerClosed[c]
  /\ ~broken[c]
  /\ owed[c] # <<>>
  /\ Len(wire[c]) <= MaxStale
  /\ \E r \in ServerReplies(Head(owed[c])) :
       /\ wire' = [wire EXCEPT ![c] = @ \o r]
       /\ IF Holder(c) # 0 /\ pc[Holder(c)] = "reading" /\ Len(owed[c]) = 1
          THEN /\ reply' = [reply EXCEPT ![Holder(c)] = r]
               /\ answered' = [answered EXCEPT ![Holder(c)] = TRUE]
          ELSE UNCHANGED <<reply, answered>>
  /\ owed' = [owed EXCEPT ![c] = Tail(@)]
  /\ UNCHANGED <<config, storeVars, closedAll, poolVars, peerClosed, broken, pc, conn, command,
                 timer, lines, partial, totalBytesRead, deadline, via,
                 idleSeen, fresh>>
  /\ last' = NoEvent

\* the server closes its end of a connection: it answers nothing more
PeerClose(c) ==
  /\ cstate[c] = "open"
  /\ ~peerClosed[c]
  /\ ~broken[c]
  /\ peerClosed' = [peerClosed EXCEPT ![c] = TRUE]
  /\ owed' = [owed EXCEPT ![c] = <<>>]
  /\ UNCHANGED <<config, storeVars, closedAll, poolVars, wire, broken, reqVars>>
  /\ last' = NoEvent

\* the numbers of bytes a read may return when avail bytes have arrived: all
\* that fit the buffer or, on a transport that fragments, any part of them
ReadSizes(avail, maxBuf) ==
  IF fragments THEN 1..Min(avail, maxBuf)
  ELSE IF avail = 0 THEN {} ELSE {Min(avail, maxBuf)}

\* await connection.read(buffer) resolves with n bytes, at most the buffer's
\* size, and the loop body runs on them
Read(e, n) ==
  /\ pc[e] = "reading"
  /\ ~broken[conn[e]]
  /\ n \in ReadSizes(Len(wire[conn[e]]), maxBufferSize)
  /\ LET c  == conn[e]
         rt == ReadTurn(lines[e], partial[e], totalBytesRead[e],
                        SubSeq(wire[c], 1, n), command[e], maxBufferSize)
         w  == [wire EXCEPT ![c] = SubSeq(@, n + 1, Len(@))]
     IN  IF rt.end = "more"
         THEN /\ wire' = w
              /\ totalBytesRead' = [totalBytesRead EXCEPT ![e] = rt.total]
              /\ lines' = [lines EXCEPT ![e] = rt.lines]
              /\ partial' = [partial EXCEPT ![e] = rt.partial]
              /\ UNCHANGED <<poolVars, owed, peerClosed, broken, pc, conn,
                             command, timer, deadline, via, idleSeen, reply,
                             answered, fresh>>
              /\ last' = NoEvent
         ELSE IF rt.end = "done"
         THEN Exit(e, "return", FALSE, Response(rt.lines, rt.partial), w,
                   FALSE, rt.total)
         ELSE Exit(e, ErrTooLarge, TRUE, <<>>, w, FALSE, rt.total)
  /\ UNCHANGED <<config, storeVars, closedAll>>

\* await connection.read(buffer) resolves with null: end of stream
ReadEOF(e) ==
  /\ pc[e] = "reading"
  /\ ~broken[conn[e]]
  /\ wire[conn[e]] = <<>>
  /\ peerClosed[conn[e]]
  /\ Exit(e, "eof", FALSE, Response(lines[e], partial[e]), wire, FALSE,
          totalBytesRead[e])
  /\ UNCHANGED <<config, storeVars, closedAll>>

\* await connection.read(buffer) throws
ReadFail(e) ==
  /\ pc[e] = "reading"
  /\ Exit(e, ErrRead, TRUE, <<>>, wire, TRUE, totalBytesRead[e])
  /\ UNCHANGED <<config, storeVars, closedAll>>

(***************************************************************************)
(* Specification.                                                          *)
(***************************************************************************)
Next ==
  \/ \E e \in Exchanges, cmd \in Commands \cup ErrorCommands, t \in CallTimeouts :
        Request(e, cmd, t)
  \/ \E e \in Exchanges : ConnectOk(e)
  \/ \E e \in Exchanges : ConnectFail(e)
  \/ \E e \in Exchanges : QueTimeout(e)
  \/ \E e \in Exchanges : TimeoutElapses(e)
  \/ CloseAll
  \/ \E e \in Exchanges : WriteOk(e)
  \/ \E e \in Exchanges : WriteFail(e)
  \/ \E c \in Connections : ServerReply(c)
  \/ \E c \in Connections : PeerClose(c)
  \/ \E e \in Exchanges, n \in 1..maxBufferSize : Read(e, n)
  \/ \E e \in Exchanges : ReadEOF(e)
  \/ \E e \in Exchanges : ReadFail(e)

Spec == Init /\ [][Next]_vars

SpecFraming == InitFraming /\ [][Next]_vars

\* Error replies: one caller at a time issues flush_all and a get of the empty
\* key, which the server answers with the line ERROR.
InitErrors ==
  InitWith({0, 1}, {32}, {NegInfinity}, FALSE,
           [e \in Exchanges |->
              IF e = 1
              THEN Calls({CmdGetEmpty}, {<<>>}) \cup Calls({CmdFlush}, {<<>>, <<SomeMs>>})
              ELSE {}])

SpecErrors == InitErrors /\ [][Next]_vars

(***************************************************************************)
(* The two backends side by side: an application makes the same calls, one *)
(* at a time and each awaited, on an InMemoryCached and on a Memcached     *)
(* client whose server conforms to the protocol, while the clock advances. *)
(***************************************************************************)
\* the values kept stay within the bounds
Bounded(st) ==
  \A k \in Keys :
     /\ Len(st[k].value) <= MaxValueLen
     /\ LET x == ParseInt(st[k].value)
        IN  x.nan \/ (x.n <= MaxNum /\ 0 - x.n <= MaxNum)

\* what the calls made amount to for each key once call c has settled with
\* m in InMemoryCached and n in Memcached
HistAfter(h, c, m, n, t) ==
  LET blank == [set |-> NoSet, removed |-> FALSE, held |-> FALSE, num |-> NoNumber]
      gone(k) == [set |-> NoSet, removed |-> TRUE,
                  held |-> store[k].has /\ NotExpired(store[k], t) /\ ServerLive(server[k], t),
                  num |-> NoNumber]
  IN  CASE c.op = "get" -> h
        [] c.op = "flush" -> [k \in Keys |-> gone(k)]
        [] c.op = "delete" -> [h EXCEPT ![c.key] = gone(c.key)]
        [] c.op = "set" ->
             [h EXCEPT ![c.key] =
                [blank EXCEPT !.set = [valid |-> TRUE, value |-> c.value,
                                       at |-> t, lifetime |-> c.lifetime]]]
        [] c.op \in {"add", "replace", "append", "prepend"} ->
             IF m.ok \/ n.ok THEN [h EXCEPT ![c.key] = blank] ELSE h
        [] c.op \in {"incr", "decr"} ->
             IF m.ok \/ n.ok
             THEN [h EXCEPT ![c.key] =
                     [blank EXCEPT !.num = [valid |-> TRUE, mem |-> m, net |-> n]]]
             ELSE h

\* the application calls one typed operation on both backends and awaits it:
\* m is what InMemoryCached does, n what Memcached does
Apply(c, m, n) ==
      /\ Bounded(m.store)
      /\ Bounded(n.store)
      /\ store' = m.store
      /\ server' = n.store
      /\ out' = [call |-> c, mem |-> m.res, net |-> n.res]
      /\ hist' = HistAfter(hist, c, m.res, n.res, now)

\* what a call leaves alone: the clock and the connection pool
Others == <<now, config, poolVars, netVars, reqVars, last, closedAll>>

Get(k) ==
  /\ Apply(OpCall("get", k, <<>>, 0, 0),
           InMemoryCached_get(store, k, now),
           Memcached_get(server, k, now))
  /\ UNCHANGED Others
Set(k, v, lifetime) ==
  /\ Apply(OpCall("set", k, v, lifetime, 0),
           InMemoryCached_set(store, k, v, lifetime, now),
           Memcached_set(server, k, v, lifetime, now))
  /\ UNCHANGED Others
Replace(k, v, lifetime) ==
  /\ Apply(OpCall("replace", k, v, lifetime, 0),
           InMemoryCached_replace(store, k, v, lifetime, now),
           Memcached_replace(server, k, v, lifetime, now))
  /\ UNCHANGED Others
Delete(k) ==
  /\ Apply(OpCall("delete", k, <<>>, 0, 0),
           InMemoryCached_delete(store, k),
           Memcached_delete(server, k, now))
  /\ UNCHANGED Others
Flush ==
  /\ Apply(OpCall("flush", <<>>, <<>>, 0, 0),
           InMemoryCached_flush(store),
           Memcached_flush(server, now))
  /\ UNCHANGED Others
Add(k, v, lifetime) ==
  /\ Apply(OpCall("add", k, v, lifetime, 0),
           InMemoryCached_add(store, k, v, lifetime, now),
           Memcached_add(server, k, v, lifetime, now))
  /\ UNCHANGED Others
AppendTo(k, v) ==
  /\ Apply(OpCall("append", k, v, 0, 0),
           InMemoryCached_append(store, k, v, now),
           Memcached_append(server, k, v, now))
  /\ UNCHANGED Others
PrependTo(k, v) ==
  /\ Apply(OpCall("prepend", k, v, 0, 0),
           InMemoryCached_prepend(store, k, v, now),
           Memcached_prepend(server, k, v, now))
  /\ UNCHANGED Others
Incr(k, amount) ==
  /\ Apply(OpCall("incr", k, <<>>, 0, amount),
           InMemoryCached_incr(store, k, amount, now),
           Memcached_incr(server, k, amount, now))
  /\ UNCHANGED Others
Decr(k, amount) ==
  /\ Apply(OpCall("decr", k, <<>>, 0, amount),
           InMemoryCached_decr(store, k, amount, now),
           Memcached_decr(server, k, amount, now))
  /\ UNCHANGED Others

\* time passes between two calls
Elapse ==
  /\ now < MaxNow * Tick
  /\ now' = now + Tick
  /\ out' = NoOut
  /\ UNCHANGED <<store, server, hist, config, poolVars, netVars, reqVars, last,
                 closedAll>>

NextBackends ==
  \/ \E k \in Keys : Get(k)
  \/ \E k \in Keys, v \in Values, lifetime \in Lifetimes : Set(k, v, lifetime)
  \/ \E k \in Keys, v \in Values, lifetime \in Lifetimes : Replace(k, v, lifetime)
  \/ \E k \in Keys : Delete(k)
  \/ Flush
  \/ \E k \in Keys, v \in Values, lifetime \in Lifetimes : Add(k, v, lifetime)
  \/ \E k \in Keys, v \in Values : AppendTo(k, v)
  \/ \E k \in Keys, v \in Values : PrependTo(k, v)
  \/ \E k \in Keys, amount \in Amounts : Incr(k, amount)
  \/ \E k \in Keys, amount \in Amounts : Decr(k, amount)
  \/ Elapse

\* a client with the default options and an InMemoryCached, both just built
InitBackends ==
  InitWith({1}, {DefaultMaxBufferSize}, {NegInfinity}, FALSE, [e \in Exchanges |-> {}])

SpecBackends == InitBackends /\ [][NextBackends]_vars

(***************************************************************************)
(* Properties.                                                             *)
(***************************************************************************)
\* the exchanges whose acquisition is pending in the queue
Waiting == {e \in Exchanges : pc[e] = "queued"}
\* the exchanges whose call of request is in progress
Issued == {e \in Exchanges : pc[e] # "new"}
\* the connections that are open
OpenConnections == {c \in Connections : cstate[c] = "open"}
\* the idle connections
Idle == {c \in Connections : InSeq(c, pool)}
\* the idle connection released last
MostRecentIdle == CHOOSE c \in Idle : \A d \in Idle : relStamp[d] <= relStamp[c]
\* the sequence p without the element c
Without(p, c) == SelectSeq(p, LAMBDA x : x # c)
\* the ways a call of request that obtained a connection ends
Exits == {"return", "eof", ErrWrite, ErrRead, ErrTooLarge}

\* C1, as stated: in every reachable state and for every configured poolSize,
\* the idle connections plus the queued waiters number at most poolSize.
C1_EveryPoolSize == Len(pool) + Cardinality(Waiting) <= poolSize

\* C1, amended: for every poolSize of at least 1, in every reachable state the
\* idle connections plus the entries of the waiter queue number at most
\* poolSize.
C1_PoolBounded ==
  poolSize >= 1 => Len(pool) + Len(que) <= poolSize /\ Cardinality(Waiting) <= Len(que)

\* a release found the idle set full and closed its connection
C1_Witness ==
  /\ poolSize >= 1
  /\ Len(pool) = poolSize
  /\ last.op = "end" /\ last.released = 1 /\ last.closed = 1

\* more than poolSize calls are in progress, none has released a connection,
\* and none is still waiting for Deno.connect
Burst ==
  /\ ~released
  /\ Cardinality(Issued) > poolSize
  /\ \A e \in Issued : pc[e] # "connecting"

\* C2, as stated: when more than poolSize acquisitions are issued before any
\* connection is released, more than poolSize connections are open at once.
C2_EveryPoolSize == Burst => Cardinality(OpenConnections) > poolSize

\* C2, amended: for every poolSize of at least 1, when more than poolSize
\* acquisitions are issued before any connection is released and each has
\* its connection, every one of them holds an open connection of its own, so
\* more than poolSize connections are open at once and none of them waits.
C2_BurstExceeds ==
  poolSize >= 1 /\ Burst =>
    /\ Cardinality(OpenConnections) > poolSize
    /\ \A e \in Issued : InFlight(e) /\ cstate[conn[e]] = "open"
    /\ \A e, f \in Issued : conn[e] = conn[f] => e = f

\* two calls in progress on a pool of size 1, nothing released yet
C2_Witness == poolSize >= 1 /\ Burst

\* C3: a call of request that obtained a connection calls releaseConnection
\* for it exactly once on every exit path (return, end of stream, write
\* error, read error, response too large), after which the call no longer
\* holds it; it is not released before the call ends; a call whose
\* acquisition failed releases nothing.
C3_ReleasedOnce ==
  /\ last.op = "end" /\ last.how \in Exits =>
       /\ last.obtained
       /\ last.released = 1
       /\ conn[last.ex] = 0
       /\ \/ InSeq(last.conn, pool)
          \/ cstate[last.conn] = "closed"
          \/ Holder(last.conn) # 0
  /\ last.op = "end" /\ last.how \notin Exits =>
       ~last.obtained /\ last.released = 0
  /\ last.op = "closeAll" => last.released = 0
  /\ \A e \in Exchanges :
       InFlight(e) => /\ conn[e] # 0
                      /\ ~InSeq(conn[e], pool)
                      /\ cstate[conn[e]] = "open"

\* a call ended with the response-too-large error and released its connection
C3_Witness ==
  last.op = "end" /\ last.how = ErrTooLarge /\ last.released = 1

\* The case of C4, a connection released while the queue holds an entry, is
\* reached in no state: no call holds a connection while que is non-empty, so
\* releaseConnection never takes its hand-over branch.
NoReleaseWithWaiters ==
  /\ \A e \in Exchanges : conn[e] # 0 => que = <<>>
  /\ poolSize >= 1 => que = <<>>
  /\ poolSize < 1 => OpenConnections = {}

\* C5: getConnection takes one of three outcomes, decided by the state at the
\* call.  With an idle connection: the one released last is returned, the
\* others stay idle in their order, nothing is opened or queued.  Otherwise,
\* with pool.length + que.length < poolSize: a connection is opened, and the
\* one returned was not open before and is held by nobody else.  Otherwise:
\* the call is appended to the queue and nothing is opened.
C5_Acquire ==
  [][/\ \A e \in Exchanges :
          pc[e] = "new" /\ pc'[e] # "new" =>
            IF Len(pool) > 0
            THEN /\ pc'[e] = "writing"
                 /\ conn'[e] = MostRecentIdle
                 /\ pool' = Without(pool, MostRecentIdle)
                 /\ que' = que
                 /\ cstate' = cstate
            ELSE IF Len(pool) + Len(que) < poolSize
            THEN /\ pc'[e] = "connecting"
                 /\ pool' = pool
                 /\ que' = que
                 /\ cstate' = cstate
            ELSE /\ pc'[e] = "queued"
                 /\ que' = Append(que, e)
                 /\ pool' = pool
                 /\ cstate' = cstate
     /\ \A e \in Exchanges :
          pc[e] = "connecting" /\ pc'[e] = "writing" =>
            /\ cstate[conn'[e]] = "closed"
            /\ cstate' = [cstate EXCEPT ![conn'[e]] = "open"]
            /\ \A x \in Exchanges : x # e => conn[x] # conn'[e]
            /\ pool' = pool
            /\ que' = que
    ]_vars

\* a call has just taken one of two idle connections
C5_Witness ==
  \E e \in Exchanges :
    pc[e] = "writing" /\ via[e] = "idle" /\ idleSeen[e] = 2 /\ Len(pool) = 1

\* C6: closeAll closes every connection idle at the call, rejects every
\* pending waiter with "Connection closing", leaves pool and que empty, and
\* changes nothing of a connection checked out by a call in progress, nor of
\* that call.
C6_CloseAll ==
  [][last'.op = "closeAll" =>
       /\ \A c \in Idle : cstate'[c] = "closed"
       /\ \A e \in Waiting : pc'[e] = "new" /\ ~timer'[e]
       /\ last'.how = ErrClosing
       /\ last'.rejected = Cardinality(Waiting)
       /\ last'.closed = Cardinality(Idle)
       /\ pool' = <<>>
       /\ que' = <<>>
       /\ \A e \in Exchanges :
            pc[e] \in {"connecting", "writing", "reading"} =>
              /\ pc'[e] = pc[e]
              /\ conn'[e] = conn[e]
              /\ lines'[e] = lines[e]
              /\ partial'[e] = partial[e]
              /\ totalBytesRead'[e] = totalBytesRead[e]
       /\ \A c \in Connections :
            c \notin Idle =>
              /\ cstate'[c] = cstate[c]
              /\ wire'[c] = wire[c]
              /\ owed'[c] = owed[c]
              /\ peerClosed'[c] = peerClosed[c]
              /\ broken'[c] = broken[c]
    ]_vars

\* closeAll has just closed an idle connection while a call holds another
C6_Witness ==
  /\ last.op = "closeAll"
  /\ last.closed >= 1
  /\ \E e \in Exchanges : InFlight(e) /\ cstate[conn[e]] = "open"

\* C7: a timer is armed exactly for the pending waiters whose timeout is
\* positive, so such a waiter is rejected when its time elapses with no
\* connection handed to it; the rejection is the queue-timeout error and
\* changes no other call; a waiter whose timeout is not positive, or absent,
\* leaves the queue only with a connection handed to it or by closeAll; once
\* a waiter has settled its timer is not armed.
C7_QueTimeout ==
  /\ [](\A e \in Exchanges :
          /\ timer[e] => pc[e] = "queued" /\ deadline[e] = "set"
          /\ pc[e] = "queued" /\ deadline[e] = "set" => timer[e]
          /\ pc[e] = "queued" => deadline[e] # "passed")
  /\ [][\A e \in Exchanges :
          pc[e] = "queued" /\ pc'[e] # "queued" =>
            /\ ~timer'[e]
            /\ \/ pc'[e] = "writing" /\ conn'[e] # 0
               \/ pc'[e] = "new" /\ last'.op = "closeAll"
               \/ /\ pc'[e] = "new"
                  /\ last'.op = "end" /\ last'.ex = e
                  /\ last'.how = ErrQueTimeout
                  /\ deadline[e] = "set"
                  /\ \A x \in Exchanges :
                       x # e => /\ pc'[x] = pc[x]
                                /\ timer'[x] = timer[x]
                                /\ conn'[x] = conn[x]
    ]_vars

\* a waiter has just been rejected by its timer while another stays pending
C7_Witness ==
  /\ last.op = "end" /\ last.how = ErrQueTimeout
  /\ \E x \in Exchanges : x # last.ex /\ pc[x] = "queued"

\* C8, as stated: a call made with a timeout whose time has elapsed with no
\* answer from the server is not pending any more (it was rejected with a
\* timeout error).
C8_TimeoutRejects ==
  \A e \in Exchanges :
    ~(pc[e] \in {"writing", "reading"} /\ deadline[e] = "passed" /\ ~answered[e])

\* the response request returns, and the bytes it leaves unread, when the
\* whole of reply r to command cmd arrives in one chunk
SingleChunk(r, cmd) ==
  LET t == ReadTurn(<<>>, <<>>, 0, r, cmd, maxBufferSize)
  IN  [response |-> Response(t.lines, t.partial), unread |-> <<>>,
       end |-> t.end]

\* C9, as stated: whatever the cut of a reply shorter than maxBufferSize
\* into chunks, a call that writes on a connection with nothing unread and
\* returns gives the response, and leaves the bytes unread, that it gives and
\* leaves when the reply arrives in one chunk.
C9_FragmentIndependent ==
  ( /\ last.op = "end" /\ last.how = "return"
    /\ last.fresh /\ last.answered
    /\ Len(last.reply) < maxBufferSize
    /\ last.total + Len(last.unread) = Len(last.reply) ) =>
      /\ SingleChunk(last.reply, last.command).end = "done"
      /\ last.response = SingleChunk(last.reply, last.command).response
      /\ last.unread = SingleChunk(last.reply, last.command).unread

\* C10, as stated: a call that returns has read at most maxBufferSize bytes.
C10_WithinBuffer ==
  last.op = "end" /\ last.how = "return" => last.total <= maxBufferSize

\* C11, as stated: a call aborted by the size limit releases its connection
\* (idle again, or closed when the idle set is full), and the connection
\* holds no byte of the aborted reply for the next call to read.
C11_AbortLeavesClean ==
  ( /\ last.op = "end" /\ last.how = ErrTooLarge
    /\ last.fresh /\ last.answered ) =>
      /\ last.released = 1
      /\ InSeq(last.conn, pool) \/ cstate[last.conn] = "closed"
      /\ last.unread = <<>>
      /\ InSeq(last.conn, pool) => wire[last.conn] = <<>>

\* C12, as stated: a connection on which write or read threw, or on which
\* the stream ended, during a call is closed and is not idle afterwards.
C12_BrokenNotPooled ==
  last.op = "end" /\ last.how \in {ErrWrite, ErrRead, "eof"} =>
    /\ ~InSeq(last.conn, pool)
    /\ cstate[last.conn] = "closed"

\* the last call of set(k) when nothing has changed k since, and whether its
\* lifetime (raised to 1 second by set) has yet to run out
LastSet(k) == hist[k].set
BeforeExpiry(k) ==
  LastSet(k).valid /\ now < LastSet(k).at + Max(1, LastSet(k).lifetime) * 1000
GetOf(k) == out.call.op = "get" /\ out.call.key = k

\* C13: set(key, value, ttl) followed by get(key) before expiry returns exactly
\* value in both backends, the empty string included, and after a later set
\* of the key the later value.
C13_RoundTrip ==
  \A k \in Keys :
     GetOf(k) /\ BeforeExpiry(k) =>
        /\ out.mem = ResText(LastSet(k).value)
        /\ out.net = ResText(LastSet(k).value)

\* the key is stored in InMemoryCached, on the server: held and not expired
MemStored(k) == store[k].has /\ NotExpired(store[k], now)
SrvStored(k) == ServerLive(server[k], now)
\* the step is a call of op on key k
Called(ops, k) == out'.call.op \in ops /\ out'.call.key = k

\* C14: while a key is stored every add of it rejects and leaves the stored
\* entry as it was, and once the key has been deleted or has expired add
\* succeeds again.
C14_AddOnce ==
  [][\A k \in Keys :
       Called({"add"}, k) =>
          /\ MemStored(k) => ~out'.mem.ok /\ store'[k] = store[k]
          /\ ~MemStored(k) => out'.mem.ok
          /\ SrvStored(k) => ~out'.net.ok /\ server'[k] = server[k]
          /\ ~SrvStored(k) => out'.net.ok]_vars

\* C15: replace, append, prepend, incr and decr of a key that is not stored
\* (never set, deleted, flushed or expired) reject and store nothing, in both
\* backends.
C15_AbsentRejects ==
  [][\A k \in Keys :
       Called({"replace", "append", "prepend", "incr", "decr"}, k) =>
          /\ ~MemStored(k) => ~out'.mem.ok /\ ~store'[k].has
          /\ ~SrvStored(k) => ~out'.net.ok /\ ~server'[k].has]_vars

\* C16: incr and decr of a key whose stored value is not a number reject and
\* leave the stored value as it was, in both backends.
C16_NonNumericRejects ==
  [][\A k \in Keys :
       Called({"incr", "decr"}, k) =>
          /\ MemStored(k) /\ ParseInt(store[k].value).nan =>
                ~out'.mem.ok /\ store'[k] = store[k]
          /\ SrvStored(k) /\ ParseInt(server[k].value).nan =>
                ~out'.net.ok /\ server'[k] = server[k]]_vars

\* the text is the decimal text of an integer
IsInteger(v) == ~ParseInt(v).nan /\ NumToString(ParseInt(v)) = v
\* the number a call of incr or decr is to return on the stored text v
Expected(c, v) ==
  IF c.op = "incr" THEN NumAdd(ParseInt(v), c.amount)
  ELSE NumAdd(ParseInt(v), 0 - c.amount)
\* the last change of k was an incr or a decr, which returned a number
LastNumber(k) == hist[k].num

\* C17: incr(k, n) on a key storing the integer v returns v + n and decr(k, n)
\* returns v - n, also below zero, and a get(k) made after the call, while
\* the key has not run out of the lifetime it was stored with, returns the
\* decimal text of that result, in both backends.
C17_Arithmetic ==
  [][\A k \in Keys :
       /\ Called({"incr", "decr"}, k) =>
            /\ MemStored(k) /\ IsInteger(store[k].value) =>
                  out'.mem = ResNum(Expected(out'.call, store[k].value))
            /\ SrvStored(k) /\ IsInteger(server[k].value) =>
                  out'.net = ResNum(Expected(out'.call, server[k].value))
       /\ Called({"get"}, k) /\ LastNumber(k).valid /\ SrvStored(k) =>
            /\ LastNumber(k).mem.ok =>
                  out'.mem = ResText(NumToString(LastNumber(k).mem.num))
            /\ LastNumber(k).net.ok =>
                  out'.net = ResText(NumToString(LastNumber(k).net.num))]_vars

Elapsed(k) == LastSet(k).at + LastSet(k).lifetime * 1000
\* what C19 says of a get(k) when set(k) was the last call to store k
ExpiresOnTime(k) ==
  /\ now < Elapsed(k) => out.mem = ResText(LastSet(k).value)
  /\ now > Elapsed(k) => out.mem = ResNull /\ ~store[k].has

\* C19 as stated: in InMemoryCached a key stored by set with lifetime L is
\* returned by get at every time before L seconds have elapsed since the set,
\* and at every time after that get returns null and the entry is removed,
\* unless the key was stored again.
C19_AnyLifetime ==
  \A k \in Keys : GetOf(k) /\ LastSet(k).valid => ExpiresOnTime(k)

\* C19 for lifetimes of 1 second and more: a shorter lifetime is raised to 1
\* second by set.
C19_Expiry ==
  \A k \in Keys :
     GetOf(k) /\ LastSet(k).valid /\ LastSet(k).lifetime >= 1 => ExpiresOnTime(k)

\* a get made after the lifetime of the last set has elapsed returned null and
\* removed the entry
C19_Witness ==
  \E k \in Keys :
     /\ GetOf(k)
     /\ LastSet(k).valid
     /\ LastSet(k).lifetime >= 1
     /\ now > Elapsed(k)
     /\ out.mem = ResNull
     /\ ~store[k].has

\* C20: every call settles the same way in InMemoryCached and in the Memcached
\* client against a conforming server: both resolve, with equal values, or
\* both reject.
C20_SameContract ==
  out.call.op # "" =>
     /\ out.mem.ok = out.net.ok
     /\ out.mem.ok => out.mem = out.net

\* a protocol-level error line: ERROR, CLIENT_ERROR ..., SERVER_ERROR ...
IsErrorLine(l) ==
  \/ StartsWith(l, <<"E","R","R","O","R">>)
  \/ StartsWith(l, <<"C","L","I","E","N","T","_","E","R","R","O","R">>)
  \/ StartsWith(l, <<"S","E","R","V","E","R","_","E","R","R","O","R">>)

\* C21: an exchange stops reading as soon as a collected line is a protocol
\* error line: no call of request is still reading, for a command other than
\* incr and decr, with an error line among its lines.
C21_StopsOnErrorLine ==
  \A e \in Exchanges :
     pc[e] = "reading" /\ ~IsIncrDecr(command[e]) =>
        \A i \in 1..Len(lines[e]) : ~IsErrorLine(lines[e][i])

\* C22: every entry of the waiter queue is an acquisition that has not
\* settled: the call that pushed it is still waiting for its connection.
C22_QueueUnsettled ==
  \A i \in 1..Len(que) : que[i] # 0 /\ pc[que[i]] = "queued"

\* the connections checked out by calls of request in progress
CheckedOut == {c \in Connections : \E e \in Exchanges : conn[e] = c}

\* C23: for every poolSize of at least 1 the waiter queue is empty in every
\* reachable state: no acquisition is enqueued, none waits, and none is
\* rejected by a queue timeout, however many connections are checked out.
C23_NeverQueues ==
  poolSize >= 1 =>
     /\ que = <<>>
     /\ Waiting = {}
     /\ \A e \in Exchanges : via[e] # "queue" /\ ~timer[e]
     /\ last.how # ErrQueTimeout

\* with poolSize connections already checked out, an acquisition that found
\* the idle set empty is opening a connection of its own
C23_Witness ==
  /\ poolSize >= 1
  /\ Cardinality(CheckedOut) >= poolSize
  /\ pool = <<>>
  /\ \E e \in Exchanges : pc[e] = "connecting" /\ via[e] = "open"

\* C24: after closeAll, once every call of request that was in progress has
\* ended and while no new operation is issued, no connection of the client
\* is open and the idle set is empty.
C24_ClosedAfterCloseAll ==
  closedAll /\ Issued = {} => OpenConnections = {} /\ pool = <<>>

\* C25: a call of request that returns normally, having written its command
\* on a connection with nothing unread and been answered, leaves no byte of
\* the reply unread on the connection it releases.
C25_ConsumesReply ==
  ( /\ last.op = "end" /\ last.how = "return"
    /\ last.fresh /\ last.answered ) =>
        last.unread = <<>>

\* the entry is readable at least as long as entry e was: it never expires,
\* or expires no earlier
OutlivesEntry(new, e) ==
  new.has /\ (new.expiresAt = 0 \/ (e.expiresAt # 0 /\ new.expiresAt >= e.expiresAt))

\* C26: in InMemoryCached an append, prepend, incr or decr that succeeds on a
\* stored key does not shorten the time for which the key stays readable, and
\* the entry it stores with the lifetime 0 never expires.
C26_KeepsLifetime ==
  [][\A k \in Keys :
       Called({"append", "prepend", "incr", "decr"}, k) /\ MemStored(k) /\ out'.mem.ok =>
          /\ OutlivesEntry(store'[k], store[k])
          /\ store'[k].expiresAt = 0]_vars

\* the places of connection c in the idle set, and the calls that hold it
IdlePlaces(c) == {i \in 1..Len(pool) : pool[i] = c}
Holders(c) == {e \in Exchanges : conn[e] = c}

\* C27: every open connection is either in the idle set exactly once or held
\* by exactly one call of request in progress, never both and never neither;
\* a closed connection is in neither the idle set nor any call.
C27_Ownership ==
  \A c \in Connections :
     /\ cstate[c] = "open" =>
           Cardinality(IdlePlaces(c)) + Cardinality(Holders(c)) = 1
     /\ cstate[c] = "closed" => IdlePlaces(c) = {} /\ Holders(c) = {}
     /\ \A e \in Holders(c) : InFlight(e)

\* a call has just released its connection into the idle set while another
\* call in progress holds a connection of its own
C27_Witness ==
  /\ last.op = "end" /\ last.released = 1
  /\ \E c, d \in OpenConnections :
        /\ c = last.conn
        /\ IdlePlaces(c) # {}
        /\ Holders(d) # {}

=============================================================================
